---- MODULE Spec2Model ----
(***************************************************************************)
(* A model of the streaming state-filter pipeline of                       *)
(* scripts/prepare_missouri_data.py and of the state normalisation, the    *)
(* state filter and the cleaning run of scripts/clean_mo_waits.py.         *)
(*                                                                         *)
(* Text is modelled as a sequence of one-character strings, so that        *)
(* trimming, upper-casing, the regular-expression substitution and the     *)
(* tokenisation are computed character by character as the code does.      *)
(***************************************************************************)
EXTENDS Integers, Sequences, FiniteSets, TLC

VARIABLES
    \* ---- prepare_missouri_data: one command-line run after another ----
    args,      \* the parsed command line and the input files it names
    pc,        \* "main" | "files" | "chunks" | "done" | "failed" | "crashed" | "idle"
    run,       \* number of the current run of the script (1, 2, ...)
    failure,   \* why the run failed ("none" while it has not)
    fs,        \* the output directory: path |-> lines of the file
    writer,    \* the sink object built by process_files
    fidx,      \* position in in_files of the source being processed (0: none yet)
    cidx,      \* number of chunks of the current source already processed
    in_rows, out_rows, empty_rows,                \* per-source counters
    total_in, total_out, total_bad_empty_rows,    \* run counters
    wlog,      \* history: the write calls made on the current sink
    finals,    \* history: the counters of each source when it was exhausted
    prev,      \* history: output directory and totals at the end of the run before
    \* ---- clean_mo_waits.normalize_state_series applied to one cell ----
    nraw,      \* the raw cell value given to the normaliser
    nsrc,      \* the jurisdiction the raw value spells (NoCode when none)
    nout,      \* the normaliser's result (Unset before the call)
    nagain,    \* the result of normalising nout once more (Unset before)
    npc,       \* "start" | "done" | "again" | "idle"
    \* ---- one call of a state filter on one data frame ----
    fdf,       \* the data frame given to the filter
    fabbr,     \* the state_abbrev argument of filter_state_auto
    fstates,   \* the states argument behind state_filter's allow-list
    fres,      \* what the call gave: [status, df, mode]
    fpc,       \* "start" | "auto" | "plain" | "idle"
    \* ---- clean_mo_waits: one run of main ----
    cargs,     \* the parsed command line: [state, year_min, year_max, no_dedup]
    craw,      \* the input file as read_csv gives it
    cdf,       \* the data frame df of main; its last column is the row index
    cpc,       \* "read" | "filter" | "window" | "dedup" | "save" | "summary" | "done" | "idle"
    n_raw_rows, n_raw_cols, filter_mode,
    before_window, after_window, removed_dups,    \* the locals of main
    cleaned_csv,   \* the lines save_csv wrote
    summary_rows,  \* the Count column of cleaning_summary.csv, by metric
    chist      \* history: the row indexes in df after each stage

pvars == <<args, pc, run, failure, fs, writer, fidx, cidx, in_rows, out_rows,
           empty_rows, total_in, total_out, total_bad_empty_rows, wlog, finals,
           prev>>
nvars == <<nraw, nsrc, nout, nagain, npc>>
fvars == <<fdf, fabbr, fstates, fres, fpc>>
cvars == <<cargs, craw, cdf, cpc, n_raw_rows, n_raw_cols, filter_mode, before_window,
           after_window, removed_dups, cleaned_csv, summary_rows, chist>>
vars == <<pvars, nvars, fvars, cvars>>

----------------------------------------------------------------------------
(* Bounds of the model *)

\* extra whitespace characters put in front of, behind and inside a spelling
MaxPad == 1
\* input files named on the command line
MaxFiles == 2
\* lines of all input files together, their header lines included
MaxLines == 5
\* the --chunksize values tried are 1 and MaxChunk
MaxChunk == 2
\* runs of the script, one after the other, on the same output directory
MaxRuns == 2
\* rows of the data frame given to a state filter, and of the input file
\* of clean_mo_waits
MaxFrameRows == 2

----------------------------------------------------------------------------
(* Text primitives (Python str methods and re.sub) *)

\* a missing cell (NaN / <NA>); no text is equal to it
NA == <<"<NA>">>
Unset == <<"<unset>">>
NoCode == <<"<none>">>

UpperAlpha == <<"A","B","C","D","E","F","G","H","I","J","K","L","M",
                "N","O","P","Q","R","S","T","U","V","W","X","Y","Z">>
LowerAlpha == <<"a","b","c","d","e","f","g","h","i","j","k","l","m",
                "n","o","p","q","r","s","t","u","v","w","x","y","z">>

IsUpperLetter(c) == \E i \in 1..Len(UpperAlpha) : UpperAlpha[i] = c

UpperChar(c) ==
    IF \E i \in 1..Len(LowerAlpha) : LowerAlpha[i] = c
    THEN UpperAlpha[CHOOSE i \in 1..Len(LowerAlpha) : LowerAlpha[i] = c]
    ELSE c

LowerChar(c) ==
    IF \E i \in 1..Len(UpperAlpha) : UpperAlpha[i] = c
    THEN LowerAlpha[CHOOSE i \in 1..Len(UpperAlpha) : UpperAlpha[i] = c]
    ELSE c

\* str.upper()
StrUpper(s) == [i \in 1..Len(s) |-> UpperChar(s[i])]

\* str.lower()
StrLower(s) == [i \in 1..Len(s) |-> LowerChar(s[i])]

\* the characters str.strip() and str.split() treat as whitespace
IsSpace(c) == c \in {" ", "\t", "\n"}

RECURSIVE LStrip(_)
LStrip(s) ==
    IF s = <<>> THEN <<>>
    ELSE IF IsSpace(Head(s)) THEN LStrip(Tail(s)) ELSE s

RECURSIVE RStrip(_)
RStrip(s) ==
    IF s = <<>> THEN <<>>
    ELSE IF IsSpace(s[Len(s)]) THEN RStrip(SubSeq(s, 1, Len(s) - 1)) ELSE s

\* str.strip()
StrStrip(s) == RStrip(LStrip(s))

\* re.sub(r"[^A-Z]", " ", val)
ReSubNonUpper(s) == [i \in 1..Len(s) |-> IF IsUpperLetter(s[i]) THEN s[i] ELSE " "]

\* str.split(): the maximal runs of non-whitespace characters, in order
RECURSIVE SplitFrom(_, _, _)
SplitFrom(s, cur, acc) ==
    IF s = <<>> THEN (IF cur = <<>> THEN acc ELSE Append(acc, cur))
    ELSE IF IsSpace(Head(s))
         THEN SplitFrom(Tail(s), <<>>, IF cur = <<>> THEN acc ELSE Append(acc, cur))
         ELSE SplitFrom(Tail(s), Append(cur, Head(s)), acc)

StrSplit(s) == SplitFrom(s, <<>>, <<>>)

\* Series.astype(str) on one cell: a missing value becomes the text "nan"
AsTypeStr(v) == IF v = NA THEN <<"n","a","n">> ELSE v

----------------------------------------------------------------------------
(* clean_mo_waits.STATE_FULL_NAME: <<code, full name>> pairs *)

STATE_FULL_NAME_ITEMS ==
    <<
       <<<<"A","L">>, <<"A","L","A","B","A","M","A">>>>,
       <<<<"A","K">>, <<"A","L","A","S","K","A">>>>,
       <<<<"A","Z">>, <<"A","R","I","Z","O","N","A">>>>,
       <<<<"A","R">>, <<"A","R","K","A","N","S","A","S">>>>,
       <<<<"C","A">>, <<"C","A","L","I","F","O","R","N","I","A">>>>,
       <<<<"C","O">>, <<"C","O","L","O","R","A","D","O">>>>,
       <<<<"C","T">>, <<"C","O","N","N","E","C","T","I","C","U","T">>>>,
       <<<<"D","E">>, <<"D","E","L","A","W","A","R","E">>>>,
       <<<<"F","L">>, <<"F","L","O","R","I","D","A">>>>,
       <<<<"G","A">>, <<"G","E","O","R","G","I","A">>>>,
       <<<<"H","I">>, <<"H","A","W","A","I","I">>>>,
       <<<<"I","D">>, <<"I","D","A","H","O">>>>,
       <<<<"I","L">>, <<"I","L","L","I","N","O","I","S">>>>,
       <<<<"I","N">>, <<"I","N","D","I","A","N","A">>>>,
       <<<<"I","A">>, <<"I","O","W","A">>>>,
       <<<<"K","S">>, <<"K","A","N","S","A","S">>>>,
       <<<<"K","Y">>, <<"K","E","N","T","U","C","K","Y">>>>,
       <<<<"L","A">>, <<"L","O","U","I","S","I","A","N","A">>>>,
       <<<<"M","E">>, <<"M","A","I","N","E">>>>,
       <<<<"M","D">>, <<"M","A","R","Y","L","A","N","D">>>>,
       <<<<"M","A">>, <<"M","A","S","S","A","C","H","U","S","E","T","T","S">>>>,
       <<<<"M","I">>, <<"M","I","C","H","I","G","A","N">>>>,
       <<<<"M","N">>, <<"M","I","N","N","E","S","O","T","A">>>>,
       <<<<"M","S">>, <<"M","I","S","S","I","S","S","I","P","P","I">>>>,
       <<<<"M","O">>, <<"M","I","S","S","O","U","R","I">>>>,
       <<<<"M","T">>, <<"M","O","N","T","A","N","A">>>>,
       <<<<"N","E">>, <<"N","E","B","R","A","S","K","A">>>>,
       <<<<"N","V">>, <<"N","E","V","A","D","A">>>>,
       <<<<"N","H">>, <<"N","E","W"," ","H","A","M","P","S","H","I","R","E">>>>,
       <<<<"N","J">>, <<"N","E","W"," ","J","E","R","S","E","Y">>>>,
       <<<<"N","M">>, <<"N","E","W"," ","M","E","X","I","C","O">>>>,
       <<<<"N","Y">>, <<"N","E","W"," ","Y","O","R","K">>>>,
       <<<<"N","C">>, <<"N","O","R","T","H"," ","C","A","R","O","L","I","N","A">>>>,
       <<<<"N","D">>, <<"N","O","R","T","H"," ","D","A","K","O","T","A">>>>,
       <<<<"O","H">>, <<"O","H","I","O">>>>,
       <<<<"O","K">>, <<"O","K","L","A","H","O","M","A">>>>,
       <<<<"O","R">>, <<"O","R","E","G","O","N">>>>,
       <<<<"P","A">>, <<"P","E","N","N","S","Y","L","V","A","N","I","A">>>>,
       <<<<"R","I">>, <<"R","H","O","D","E"," ","I","S","L","A","N","D">>>>,
       <<<<"S","C">>, <<"S","O","U","T","H"," ","C","A","R","O","L","I","N","A">>>>,
       <<<<"S","D">>, <<"S","O","U","T","H"," ","D","A","K","O","T","A">>>>,
       <<<<"T","N">>, <<"T","E","N","N","E","S","S","E","E">>>>,
       <<<<"T","X">>, <<"T","E","X","A","S">>>>,
       <<<<"U","T">>, <<"U","T","A","H">>>>,
       <<<<"V","T">>, <<"V","E","R","M","O","N","T">>>>,
       <<<<"V","A">>, <<"V","I","R","G","I","N","I","A">>>>,
       <<<<"W","A">>, <<"W","A","S","H","I","N","G","T","O","N">>>>,
       <<<<"W","V">>, <<"W","E","S","T"," ","V","I","R","G","I","N","I","A">>>>,
       <<<<"W","I">>, <<"W","I","S","C","O","N","S","I","N">>>>,
       <<<<"W","Y">>, <<"W","Y","O","M","I","N","G">>>>,
       <<<<"D","C">>, <<"D","I","S","T","R","I","C","T"," ","O","F"," ","C","O","L","U","M","B","I","A">>>>,
       <<<<"P","R">>, <<"P","U","E","R","T","O"," ","R","I","C","O">>>>
    >>

\* the keys of STATE_FULL_NAME
StateCodes == {STATE_FULL_NAME_ITEMS[i][1] : i \in 1..Len(STATE_FULL_NAME_ITEMS)}

\* STATE_FULL_NAME[code]
STATE_FULL_NAME(code) ==
    STATE_FULL_NAME_ITEMS[CHOOSE i \in 1..Len(STATE_FULL_NAME_ITEMS) :
                             STATE_FULL_NAME_ITEMS[i][1] = code][2]

\* the keys of full_to_code = {v: k for k, v in STATE_FULL_NAME.items()}
FullNames == {STATE_FULL_NAME_ITEMS[i][2] : i \in 1..Len(STATE_FULL_NAME_ITEMS)}

\* full_to_code[name]
full_to_code(name) ==
    STATE_FULL_NAME_ITEMS[CHOOSE i \in 1..Len(STATE_FULL_NAME_ITEMS) :
                             STATE_FULL_NAME_ITEMS[i][2] = name][1]

----------------------------------------------------------------------------
(* clean_mo_waits.normalize_state_series *)

\* faulty variant of normalize_one: the tokens are looked up as full names
\* before they are looked up as codes
normalize_one_names_first(val) ==
    IF val \in StateCodes THEN val
    ELSE LET val_clean == ReSubNonUpper(val)
             tokens == StrSplit(val_clean)
             codeIdx == {i \in 1..Len(tokens) : tokens[i] \in StateCodes}
             nameIdx == {i \in 1..Len(tokens) : tokens[i] \in FullNames}
             first(S) == CHOOSE i \in S : \A j \in S : i <= j
         IN  IF nameIdx # {} THEN full_to_code(tokens[first(nameIdx)])
             ELSE IF codeIdx # {} THEN tokens[first(codeIdx)]
             ELSE IF val \in FullNames THEN full_to_code(val)
             ELSE val

\* faulty variant of normalize_one: what is passed through is the value
\* with its non-letters replaced by blanks
normalize_one_passes_cleaned(val) ==
    IF val \in StateCodes THEN val
    ELSE LET val_clean == ReSubNonUpper(val)
             tokens == StrSplit(val_clean)
             codeIdx == {i \in 1..Len(tokens) : tokens[i] \in StateCodes}
             nameIdx == {i \in 1..Len(tokens) : tokens[i] \in FullNames}
             first(S) == CHOOSE i \in S : \A j \in S : i <= j
         IN  IF codeIdx # {} THEN tokens[first(codeIdx)]
             ELSE IF nameIdx # {} THEN full_to_code(tokens[first(nameIdx)])
             ELSE IF val \in FullNames THEN full_to_code(val)
             ELSE val_clean

\* normalize_one(val), val already trimmed and upper-cased
normalize_one(val) ==
    IF val \in StateCodes THEN val
    ELSE LET val_clean == ReSubNonUpper(val)
             tokens == StrSplit(val_clean)
             codeIdx == {i \in 1..Len(tokens) : tokens[i] \in StateCodes}
             nameIdx == {i \in 1..Len(tokens) : tokens[i] \in FullNames}
             first(S) == CHOOSE i \in S : \A j \in S : i <= j
         IN  IF codeIdx # {} THEN tokens[first(codeIdx)]
             ELSE IF nameIdx # {} THEN full_to_code(tokens[first(nameIdx)])
             ELSE IF val \in FullNames THEN full_to_code(val)
             ELSE val

\* one element of normalize_state_series(s): up = astype(str).strip().upper()
normalize_state_value(v) == normalize_one(StrUpper(StrStrip(AsTypeStr(v))))

\* normalize_state_series(s), s a sequence of cells
normalize_state_series(s) == [i \in 1..Len(s) |-> normalize_state_value(s[i])]

----------------------------------------------------------------------------
(* Data frames: [columns: sequence of names, rows: sequence of rows], a row
   being the sequence of its cells in column order *)

\* column names are texts of one token
StateCol == <<"state">>
DtotCol == <<"dtot">>

HasCol(columns, name) == \E i \in 1..Len(columns) : columns[i] = name

ColIndex(columns, name) == CHOOSE i \in 1..Len(columns) : columns[i] = name

\* df.empty: no rows or no columns
DfEmpty(df) == Len(df.rows) = 0 \/ Len(df.columns) = 0

\* row.isna().all()
AllNa(row) == \A i \in 1..Len(row) : row[i] = NA

\* len(chunk[chunk.isna().all(axis=1)])
CountAllNa(rows) == Cardinality({i \in 1..Len(rows) : AllNa(rows[i])})

----------------------------------------------------------------------------
(* prepare_missouri_data.make_reader: the tolerant chunked reader *)

\* a line with fewer fields than the header is filled with missing values
PadRow(line, n) == [i \in 1..n |-> IF i <= Len(line) THEN line[i] ELSE NA]

\* on_bad_lines="skip": a line with more fields than the header is dropped
read_rows(file) ==
    LET n == Len(file.columns)
        good == SelectSeq(file.lines, LAMBDA l : Len(l) <= n)
    IN  [i \in 1..Len(good) |-> PadRow(good[i], n)]

\* read_header_columns raises EmptyDataError ("No columns to parse from
\* file") on a file that has no header line, i.e. a file of zero bytes
make_reader_raises(file) == Len(file.columns) = 0

\* the lines of the file the reader drops
dropped_lines(file) ==
    SelectSeq(file.lines, LAMBDA l : Len(l) > Len(file.columns))

\* number of chunks the reader yields: the first read always gives a frame
\* (an empty one for a file that holds only its header)
NumChunks(file, chunksize) ==
    LET n == Len(read_rows(file))
    IN  IF n = 0 THEN 1 ELSE (n + chunksize - 1) \div chunksize

\* faulty variant of Chunk: the rows of a chunk come last row first
Chunk_rows_reversed(file, chunksize, i) ==
    LET rows == read_rows(file)
        lo == i * chunksize + 1
        hi == IF (i + 1) * chunksize < Len(rows) THEN (i + 1) * chunksize ELSE Len(rows)
    IN  [columns |-> file.columns, rows |-> [k \in 1..(hi - lo + 1) |-> rows[hi + 1 - k]]]

\* the i-th chunk (i counted from 0, as enumerate does)
Chunk(file, chunksize, i) ==
    LET rows == read_rows(file)
        lo == i * chunksize + 1
        hi == IF (i + 1) * chunksize < Len(rows) THEN (i + 1) * chunksize ELSE Len(rows)
    IN  [columns |-> file.columns, rows |-> SubSeq(rows, lo, hi)]

----------------------------------------------------------------------------
(* prepare_missouri_data.normalize_state and state_filter *)

\* faulty variant of normalize_state: upper-cases without trimming
normalize_state_untrimmed(v) == IF v = NA THEN NA ELSE StrUpper(v)

\* one element of normalize_state(series): astype("string").str.strip().str.upper()
normalize_state(v) == IF v = NA THEN NA ELSE StrUpper(StrStrip(v))

\* allowed_states_norm = [s.strip().upper() for s in states]
allowed_states_norm(states) == [i \in 1..Len(states) |-> StrUpper(StrStrip(states[i]))]

\* s.isin(allowed_states_norm) for one element; a missing value is in no list
IsIn(v, allowed) == v # NA /\ \E i \in 1..Len(allowed) : allowed[i] = v

\* state_filter raises KeyError
state_filter_raises(df, state_col) == ~HasCol(df.columns, state_col)

\* faulty variant of state_filter: rows with a missing state pass the filter
state_filter_keeps_missing(df, state_col, allowed) ==
    LET k == ColIndex(df.columns, state_col)
    IN  [columns |-> df.columns,
         rows |-> SelectSeq(df.rows, LAMBDA r : r[k] = NA \/ IsIn(normalize_state(r[k]), allowed))]

\* state_filter(df, state_col, allowed_states_norm) when it does not raise
state_filter(df, state_col, allowed) ==
    LET k == ColIndex(df.columns, state_col)
    IN  [columns |-> df.columns,
         rows |-> SelectSeq(df.rows, LAMBDA r : IsIn(normalize_state(r[k]), allowed))]

----------------------------------------------------------------------------
(* prepare_missouri_data: the sinks *)

Base == "consult_waits_state_subset"

\* build_output_targets(outdir, to_format): the path of the single file
CsvPath(to_format) ==
    IF to_format = "csv" THEN <<Base, ".csv">> ELSE <<Base, ".csv", ".gz">>

DigitChars == <<"0","1","2","3","4","5","6","7","8","9">>

\* the decimal digits of n
RECURSIVE Decimal(_)
Decimal(n) ==
    IF n < 10 THEN <<DigitChars[n + 1]>>
    ELSE Decimal(n \div 10) \o <<DigitChars[(n % 10) + 1]>>

\* f"{n:05d}"
Format05d(n) ==
    LET d == Decimal(n)
    IN  IF Len(d) >= 5 THEN d ELSE [i \in 1..(5 - Len(d)) |-> "0"] \o d

\* f"{self.base}_part-{self.counter:05d}.parquet"
PartPath(base, counter) == <<base, "_part-">> \o Format05d(counter) \o <<".parquet">>

\* the lines of a file (nothing when it does not exist)
FileLines(files, path) == IF path \in DOMAIN files THEN files[path] ELSE <<>>

\* the directory with the file at path set to lines
PutFile(files, path, lines) ==
    [p \in (DOMAIN files) \cup {path} |-> IF p = path THEN lines ELSE files[p]]

\* a cell as to_csv writes it: a missing value as the empty field
CsvCell(v) == IF v = NA THEN <<>> ELSE v

CsvRows(df) ==
    [i \in 1..Len(df.rows) |-> [j \in 1..Len(df.rows[i]) |-> CsvCell(df.rows[i][j])]]

\* df.to_csv(path, mode="a", index=False, header=header): the lines appended
to_csv_lines(df, header) == (IF header THEN <<df.columns>> ELSE <<>>) \o CsvRows(df)

\* df.to_parquet(target, index=False): a self-describing table
to_parquet_lines(df) == <<df.columns>> \o df.rows

\* CSVStreamWriter.__init__ / ParquetChunkWriter.__init__
NewWriter(to_format) ==
    IF to_format \in {"csv", "csv.gz"}
    THEN [kind |-> to_format, path |-> CsvPath(to_format), wrote_header |-> FALSE,
          base |-> Base, counter |-> 0]
    ELSE [kind |-> "parquet", path |-> <<>>, wrote_header |-> FALSE,
          base |-> Base, counter |-> 0]

\* faulty variant of CSVStreamWriter.write: an empty batch uses up the header
CSVStreamWriter_write_flag_first(w, files, df) ==
    IF DfEmpty(df) THEN [writer |-> [w EXCEPT !.wrote_header = TRUE], fs |-> files]
    ELSE LET header == ~w.wrote_header
         IN  [writer |-> [w EXCEPT !.wrote_header = TRUE],
              fs |-> PutFile(files, w.path,
                             FileLines(files, w.path) \o to_csv_lines(df, header))]

\* CSVStreamWriter.write(df): the sink object and the directory afterwards
CSVStreamWriter_write(w, files, df) ==
    IF DfEmpty(df) THEN [writer |-> w, fs |-> files]
    ELSE LET header == ~w.wrote_header
         IN  [writer |-> [w EXCEPT !.wrote_header = TRUE],
              fs |-> PutFile(files, w.path,
                             FileLines(files, w.path) \o to_csv_lines(df, header))]

\* faulty variant of ParquetChunkWriter.write: empty batches are numbered too
ParquetChunkWriter_write_count_first(w, files, df) ==
    LET counter == w.counter + 1
    IN  IF DfEmpty(df) THEN [writer |-> [w EXCEPT !.counter = counter], fs |-> files]
        ELSE [writer |-> [w EXCEPT !.counter = counter],
              fs |-> PutFile(files, PartPath(w.base, counter), to_parquet_lines(df))]

\* ParquetChunkWriter.write(df)
ParquetChunkWriter_write(w, files, df) ==
    IF DfEmpty(df) THEN [writer |-> w, fs |-> files]
    ELSE LET counter == w.counter + 1
         IN  [writer |-> [w EXCEPT !.counter = counter],
              fs |-> PutFile(files, PartPath(w.base, counter), to_parquet_lines(df))]

\* writer.write(filtered)
writer_write(w, files, df) ==
    IF w.kind = "parquet" THEN ParquetChunkWriter_write(w, files, df)
    ELSE CSVStreamWriter_write(w, files, df)

----------------------------------------------------------------------------
(* Inputs of the pipeline *)

Missouri == <<"M","I","S","S","O","U","R","I">>

\* cells of a row of a source that has a state column
RowsWithState ==
    { << <<"M","O">>, <<"5">> >>,
      << <<" ","M","i","s","s","o","u","r","i">>, <<"4","0">> >>,
      << NA, NA >> }

\* the sources: with a state column, or without one
SourcesOfLen(n) ==
    {[columns |-> <<StateCol, DtotCol>>, lines |-> l] : l \in [1..n -> RowsWithState]}
    \cup {[columns |-> <<DtotCol>>, lines |-> [i \in 1..n |-> << <<"5">> >>]]}

\* the lists of exactly n sources with at most budget lines in all, a
\* source having its header line and the lines after it
RECURSIVE FileListsOf(_, _)
FileListsOf(n, budget) ==
    IF n = 0 THEN {<<>>}
    ELSE UNION {{<<f>> \o rest : rest \in FileListsOf(n - 1, budget - 1 - Len(f.lines))} :
                   f \in UNION {SourcesOfLen(k) : k \in 0..(budget - 1)}}

FileLists == UNION {FileListsOf(n, MaxLines) : n \in 0..MaxFiles}

\* parse_args: --state-value has action="append" and default ["MISSOURI"], so
\* the values given are appended to the default
StateValueArgs == {<<>>, << <<"m","o">> >>}

parse_state_value(given) == <<Missouri>> \o given

Formats == {"csv", "csv.gz", "parquet"}

NoWriter == [kind |-> "none", path |-> <<>>, wrote_header |-> FALSE,
             base |-> Base, counter |-> 0]

NoPrev == [fs |-> <<>>, total_in |-> 0, total_out |-> 0, total_bad_empty_rows |-> 0]

----------------------------------------------------------------------------
(* Each specification below runs one part of the program; the variables of
   the other parts stay as these predicates fix them *)

PipeIdle ==
    /\ args = [in_files |-> <<>>, to |-> "csv", state_col |-> StateCol,
               state_value |-> <<Missouri>>, chunksize |-> 1]
    /\ pc = "idle" /\ run = 0 /\ failure = "none"
    /\ fs = <<>> /\ writer = NoWriter
    /\ fidx = 0 /\ cidx = 0
    /\ in_rows = 0 /\ out_rows = 0 /\ empty_rows = 0
    /\ total_in = 0 /\ total_out = 0 /\ total_bad_empty_rows = 0
    /\ wlog = <<>> /\ finals = <<>> /\ prev = NoPrev

NormIdle ==
    /\ nraw = NA /\ nsrc = NoCode /\ nout = Unset /\ nagain = Unset /\ npc = "idle"

NoResult == [status |-> "unset", df |-> [columns |-> <<>>, rows |-> <<>>], mode |-> "unset"]

FilterIdle ==
    /\ fdf = [columns |-> <<>>, rows |-> <<>>]
    /\ fabbr = <<>> /\ fstates = <<>> /\ fres = NoResult /\ fpc = "idle"

NoFrame == [columns |-> <<>>, rows |-> <<>>]

NoSummary ==
    [raw |-> 0, after_filter_before_dedup |-> 0, removed_dups |-> 0, final |-> 0,
     raw_cols |-> 0, final_cols |-> 0]

NoHist == [filtered |-> <<>>, windowed |-> <<>>, deduped |-> <<>>]

\* what main of clean_mo_waits holds before it has read its input
CleanStart ==
    /\ cdf = NoFrame
    /\ n_raw_rows = 0 /\ n_raw_cols = 0 /\ filter_mode = "unset"
    /\ before_window = 0 /\ after_window = 0 /\ removed_dups = 0
    /\ cleaned_csv = <<>> /\ summary_rows = NoSummary /\ chist = NoHist

CleanIdle ==
    /\ cargs = [state |-> <<"M","O">>, year_min |-> 0, year_max |-> 0, no_dedup |-> FALSE]
    /\ craw = NoFrame
    /\ cpc = "idle"
    /\ CleanStart

----------------------------------------------------------------------------
(* The run of prepare_missouri_data *)

CurFile == args.in_files[fidx]

PipeInit ==
    /\ \E fl \in FileLists, to \in Formats, sv \in StateValueArgs, cs \in {1, MaxChunk} :
          args = [in_files |-> fl, to |-> to, state_col |-> StateCol,
                  state_value |-> parse_state_value(sv), chunksize |-> cs]
    /\ pc = "main"
    /\ run = 1
    /\ failure = "none"
    /\ fs = <<>>
    /\ writer = NoWriter
    /\ fidx = 0 /\ cidx = 0
    /\ in_rows = 0 /\ out_rows = 0 /\ empty_rows = 0
    /\ total_in = 0 /\ total_out = 0 /\ total_bad_empty_rows = 0
    /\ wlog = <<>>
    /\ finals = <<>>
    /\ prev = NoPrev

\* main: discover_files, then the head of process_files (totals, sink)
Main ==
    /\ pc = "main"
    /\ IF args.in_files = <<>>
       THEN /\ pc' = "failed"
            /\ failure' = "FileNotFoundError"
            /\ UNCHANGED writer
       ELSE /\ pc' = "files"
            /\ failure' = "none"
            /\ writer' = NewWriter(args.to)
    /\ total_in' = 0 /\ total_out' = 0 /\ total_bad_empty_rows' = 0
    /\ UNCHANGED <<args, run, fs, fidx, cidx, in_rows, out_rows, empty_rows, wlog,
                   finals, prev>>

\* for fpath in in_files: the next source, its counters and its reader;
\* an error raised by make_reader leaves process_files and ends the run
NextFile ==
    /\ pc = "files"
    /\ fidx < Len(args.in_files)
    /\ fidx' = fidx + 1
    /\ cidx' = 0
    /\ in_rows' = 0 /\ out_rows' = 0 /\ empty_rows' = 0
    /\ IF make_reader_raises(args.in_files[fidx + 1])
       THEN pc' = "failed" /\ failure' = "EmptyDataError"
       ELSE pc' = "chunks" /\ UNCHANGED failure
    /\ UNCHANGED <<args, run, fs, writer, total_in, total_out,
                   total_bad_empty_rows, wlog, finals, prev>>

\* one pass of the chunk loop: count broken rows, filter, count, write
ProcessChunk ==
    /\ pc = "chunks"
    /\ cidx < NumChunks(CurFile, args.chunksize)
    /\ LET chunk == Chunk(CurFile, args.chunksize, cidx)
           allowed == allowed_states_norm(args.state_value)
       IN  /\ empty_rows' = empty_rows + CountAllNa(chunk.rows)
           /\ IF state_filter_raises(chunk, args.state_col)
              THEN /\ pc' = "failed"
                   /\ failure' = "KeyError"
                   /\ UNCHANGED <<cidx, in_rows, out_rows, fs, writer, wlog>>
              ELSE LET filtered == state_filter(chunk, args.state_col, allowed)
                       res == writer_write(writer, fs, filtered)
                   IN  /\ in_rows' = in_rows + Len(chunk.rows)
                       /\ out_rows' = out_rows + Len(filtered.rows)
                       /\ writer' = res.writer
                       /\ fs' = res.fs
                       /\ wlog' = Append(wlog, [chunk |-> chunk, df |-> filtered,
                                                 before |-> fs, after |-> res.fs,
                                                 seen |-> in_rows' - in_rows,
                                                 matched |-> out_rows' - out_rows])
                       /\ cidx' = cidx + 1
                       /\ UNCHANGED <<pc, failure>>
    /\ UNCHANGED <<args, run, fidx, total_in, total_out, total_bad_empty_rows,
                   finals, prev>>

\* faulty variant of EndFile: the totals are set to the counters of the
\* source instead of being increased by them
EndFile_overwrites_totals ==
    /\ pc = "chunks"
    /\ cidx = NumChunks(CurFile, args.chunksize)
    /\ total_in' = in_rows
    /\ total_out' = out_rows
    /\ total_bad_empty_rows' = empty_rows
    /\ finals' = Append(finals, [in_rows |-> in_rows, out_rows |-> out_rows,
                                  empty_rows |-> empty_rows])
    /\ pc' = "files"
    /\ UNCHANGED <<args, run, failure, fs, writer, fidx, cidx, in_rows, out_rows,
                   empty_rows, wlog, prev>>

\* the source is exhausted: add its counters to the totals
EndFile ==
    /\ pc = "chunks"
    /\ cidx = NumChunks(CurFile, args.chunksize)
    /\ total_in' = total_in + in_rows
    /\ total_out' = total_out + out_rows
    /\ total_bad_empty_rows' = total_bad_empty_rows + empty_rows
    /\ finals' = Append(finals, [in_rows |-> in_rows, out_rows |-> out_rows,
                                  empty_rows |-> empty_rows])
    /\ pc' = "files"
    /\ UNCHANGED <<args, run, failure, fs, writer, fidx, cidx, in_rows, out_rows,
                   empty_rows, wlog, prev>>

\* after the last source: the totals are reported and the run ends
Finish ==
    /\ pc = "files"
    /\ fidx = Len(args.in_files)
    /\ pc' = "done"
    /\ UNCHANGED <<args, run, failure, fs, writer, fidx, cidx, in_rows, out_rows,
                   empty_rows, total_in, total_out, total_bad_empty_rows, wlog,
                   finals, prev>>

\* the process is interrupted between two steps of process_files
Interrupt ==
    /\ pc \in {"files", "chunks"}
    /\ pc' = "crashed"
    /\ UNCHANGED <<args, run, failure, fs, writer, fidx, cidx, in_rows, out_rows,
                   empty_rows, total_in, total_out, total_bad_empty_rows, wlog,
                   finals, prev>>

\* the same command line is run again; only the output directory survives
RunAgain ==
    /\ pc = "done"
    /\ run < MaxRuns
    /\ run' = run + 1
    /\ prev' = [fs |-> fs, total_in |-> total_in, total_out |-> total_out,
                total_bad_empty_rows |-> total_bad_empty_rows]
    /\ pc' = "main"
    /\ writer' = NoWriter
    /\ fidx' = 0 /\ cidx' = 0
    /\ in_rows' = 0 /\ out_rows' = 0 /\ empty_rows' = 0
    /\ total_in' = 0 /\ total_out' = 0 /\ total_bad_empty_rows' = 0
    /\ wlog' = <<>>
    /\ finals' = <<>>
    /\ UNCHANGED <<args, failure, fs>>

Init == PipeInit /\ NormIdle /\ FilterIdle /\ CleanIdle

\* one run of the script, from the command line to its end
Next ==
    \/ Main /\ UNCHANGED <<nvars, fvars, cvars>>
    \/ NextFile /\ UNCHANGED <<nvars, fvars, cvars>>
    \/ ProcessChunk /\ UNCHANGED <<nvars, fvars, cvars>>
    \/ EndFile /\ UNCHANGED <<nvars, fvars, cvars>>
    \/ Finish /\ UNCHANGED <<nvars, fvars, cvars>>

Spec == Init /\ [][Next]_vars

\* runs that may be interrupted, and may be followed by another run on the
\* same output directory
RerunNext ==
    \/ Main /\ UNCHANGED <<nvars, fvars, cvars>>
    \/ NextFile /\ UNCHANGED <<nvars, fvars, cvars>>
    \/ ProcessChunk /\ UNCHANGED <<nvars, fvars, cvars>>
    \/ EndFile /\ UNCHANGED <<nvars, fvars, cvars>>
    \/ Finish /\ UNCHANGED <<nvars, fvars, cvars>>
    \/ Interrupt /\ UNCHANGED <<nvars, fvars, cvars>>
    \/ RunAgain /\ UNCHANGED <<nvars, fvars, cvars>>

SpecRerun == Init /\ [][RerunNext]_vars

----------------------------------------------------------------------------
(* Specification SpecIngest: one run of the script on sources of several
   kinds: well-formed ones, one whose columns are in another order, one of
   zero bytes, ones with lines of too many or too few fields, one with no
   state column, one with its header line only *)

PlainSource ==
    [columns |-> <<StateCol, DtotCol>>,
     lines |-> << << <<"M","O">>, <<"5">> >>,
                  << <<" ","M","i","s","s","o","u","r","i">>, <<"4","0">> >> >>]

SwappedSource ==
    [columns |-> <<DtotCol, StateCol>>,
     lines |-> << << <<"7">>, Missouri >> >>]

ZeroByteSource == [columns |-> <<>>, lines |-> <<>>]

\* a line of three fields under a header of two, between two good lines
LongLineSource ==
    [columns |-> <<StateCol, DtotCol>>,
     lines |-> << << Missouri, <<"1">> >>,
                  << Missouri, <<"4","0">>, <<"x">> >>,
                  << Missouri, <<"9">> >> >>]

\* a line of one field under a header of two, and a line of empty fields
ShortLineSource ==
    [columns |-> <<StateCol, DtotCol>>,
     lines |-> << << Missouri >>, << NA, NA >> >>]

\* no state column; its first line has its only field empty
NoStateSource ==
    [columns |-> <<DtotCol>>, lines |-> << << NA >>, << <<"5">> >> >>]

HeaderOnlySource == [columns |-> <<StateCol, DtotCol>>, lines |-> <<>>]

IngestSources ==
    {PlainSource, SwappedSource, ZeroByteSource, LongLineSource, ShortLineSource,
     NoStateSource, HeaderOnlySource}

IngestFileLists == UNION {[1..n -> IngestSources] : n \in 0..MaxFiles}

IngestInit ==
    /\ NormIdle
    /\ FilterIdle
    /\ CleanIdle
    /\ \E fl \in IngestFileLists, to \in Formats, sv \in StateValueArgs, cs \in {1, MaxChunk} :
          args = [in_files |-> fl, to |-> to, state_col |-> StateCol,
                  state_value |-> parse_state_value(sv), chunksize |-> cs]
    /\ pc = "main"
    /\ run = 1
    /\ failure = "none"
    /\ fs = <<>>
    /\ writer = NoWriter
    /\ fidx = 0 /\ cidx = 0
    /\ in_rows = 0 /\ out_rows = 0 /\ empty_rows = 0
    /\ total_in = 0 /\ total_out = 0 /\ total_bad_empty_rows = 0
    /\ wlog = <<>>
    /\ finals = <<>>
    /\ prev = NoPrev

SpecIngest == IngestInit /\ [][Next]_vars

----------------------------------------------------------------------------
(* Notions the claims about the pipeline are stated with *)

\* the batches handed to the sink so far, oldest first
NonEmptyWrites == SelectSeq(wlog, LAMBDA e : ~DfEmpty(e.df))

IsFirstNonEmpty(i) ==
    /\ ~DfEmpty(wlog[i].df)
    /\ \A j \in 1..(i - 1) : DfEmpty(wlog[j].df)

\* the lines a write call added at the end of the file at path
Appended(e, path) ==
    SubSeq(FileLines(e.after, path), Len(FileLines(e.before, path)) + 1,
           Len(FileLines(e.after, path)))

\* a write call left what the file held before it in place
KeptPrefix(e, path) ==
    /\ Len(FileLines(e.before, path)) <= Len(FileLines(e.after, path))
    /\ SubSeq(FileLines(e.after, path), 1, Len(FileLines(e.before, path)))
          = FileLines(e.before, path)

\* the paths a write call created or changed
Touched(e) ==
    {p \in DOMAIN e.after : p \notin DOMAIN e.before \/ e.after[p] # e.before[p]}

\* <base>_part-0000i.parquet, for i in 1..9
PartNamed(i) == <<Base, "_part-", "0", "0", "0", "0", DigitChars[i + 1], ".parquet">>

\* the data rows of a batch as lines of delimited text
RowLines(df) == CsvRows(df)

\* the chunks of the current run processed so far, oldest first
RECURSIVE ChunksOf(_, _, _)
ChunksOf(file, cs, n) ==
    IF n = 0 THEN <<>> ELSE Append(ChunksOf(file, cs, n - 1), Chunk(file, cs, n - 1))

RECURSIVE ChunksDone(_)
ChunksDone(f) ==
    IF f = 0 THEN <<>>
    ELSE ChunksDone(f - 1) \o
         ChunksOf(args.in_files[f], args.chunksize,
                  IF f = fidx THEN cidx ELSE NumChunks(args.in_files[f], args.chunksize))

\* the rows of a chunk the filter of this run keeps
KeptRows(chunk) ==
    state_filter(chunk, args.state_col, allowed_states_norm(args.state_value)).rows

RECURSIVE ConcatRows(_)
ConcatRows(chunks) ==
    IF chunks = <<>> THEN <<>>
    ELSE [i \in 1..Len(KeptRows(Head(chunks))) |->
             [j \in 1..Len(KeptRows(Head(chunks))[i]) |-> CsvCell(KeptRows(Head(chunks))[i][j])]]
         \o ConcatRows(Tail(chunks))

\* the chunks processed so far that have a row the filter keeps
KeptChunks == SelectSeq(ChunksDone(fidx), LAMBDA c : Len(KeptRows(c)) > 0)

\* the sink holds the matching rows of the chunks processed so far, in
\* order, under one header, and nothing else
SinkHoldsChunksDone ==
    IF args.to = "parquet"
    THEN /\ DOMAIN fs = {PartNamed(i) : i \in 1..Len(KeptChunks)}
         /\ \A i \in 1..Len(KeptChunks) :
               fs[PartNamed(i)] = <<KeptChunks[i].columns>> \o KeptRows(KeptChunks[i])
    ELSE /\ DOMAIN fs \subseteq {CsvPath(args.to)}
         /\ FileLines(fs, CsvPath(args.to)) =
               IF KeptChunks = <<>> THEN <<>>
               ELSE <<KeptChunks[1].columns>> \o ConcatRows(ChunksDone(fidx))

\* the row's trimmed, upper-cased state cell is one of the trimmed,
\* upper-cased --state-value texts
MatchesLiterally(row, columns) ==
    LET v == row[ColIndex(columns, args.state_col)]
    IN  /\ v # NA
        /\ StrUpper(StrStrip(v)) \in
              {StrUpper(StrStrip(args.state_value[i])) : i \in 1..Len(args.state_value)}

\* the row's state cell normalises to the two-letter code of a --state-value
MatchesNormalised(row, columns) ==
    normalize_state_value(row[ColIndex(columns, args.state_col)]) \in
        {normalize_state_value(args.state_value[i]) : i \in 1..Len(args.state_value)}

\* rows of a source that are neither matched nor fully empty
UnmatchedRows(file) ==
    Len(SelectSeq(read_rows(file),
                  LAMBDA r : ~MatchesLiterally(r, file.columns) /\ ~AllNa(r)))

RECURSIVE UnmatchedUpTo(_)
UnmatchedUpTo(f) ==
    IF f = 0 THEN 0 ELSE UnmatchedUpTo(f - 1) + UnmatchedRows(args.in_files[f])

----------------------------------------------------------------------------
(* C1: on a single-file sink the header is written by exactly one write call,
   the first one whose batch is not empty; every later non-empty write adds
   data rows only; a write of an empty batch adds nothing and leaves the
   header to the next non-empty one. *)
C1_HeaderOnFirstNonEmptyWrite ==
    writer.kind \in {"csv", "csv.gz"} =>
        \A i \in 1..Len(wlog) :
            LET e == wlog[i]
            IN  /\ KeptPrefix(e, writer.path)
                /\ Touched(e) \subseteq {writer.path}
                /\ Appended(e, writer.path) =
                      IF DfEmpty(e.df) THEN <<>>
                      ELSE IF IsFirstNonEmpty(i) THEN <<e.df.columns>> \o RowLines(e.df)
                      ELSE RowLines(e.df)

\* an empty batch, then a first non-empty batch, then another non-empty one
C1_Witness ==
    /\ writer.kind \in {"csv", "csv.gz"}
    /\ \E i, j, k \in 1..Len(wlog) :
          /\ i < j /\ j < k
          /\ DfEmpty(wlog[i].df) /\ IsFirstNonEmpty(j) /\ ~DfEmpty(wlog[k].df)

(* C2: on the chunked sink, k non-empty batches among any number of empty
   ones give exactly the part files <base>_part-00001 .. <base>_part-0000k,
   one per non-empty batch and in their order, the i-th holding the i-th
   non-empty batch; no number is skipped or used twice. *)
C2_PartFilesNumberedFromOne ==
    writer.kind = "parquet" =>
        LET k == Len(NonEmptyWrites)
        IN  /\ \A i \in 1..Len(wlog) :
                  IF DfEmpty(wlog[i].df) THEN Touched(wlog[i]) = {}
                  ELSE LET n == Len(SelectSeq(SubSeq(wlog, 1, i), LAMBDA e : ~DfEmpty(e.df)))
                       IN  /\ DOMAIN wlog[i].after = (DOMAIN wlog[i].before) \cup {PartNamed(n)}
                           /\ \A p \in DOMAIN wlog[i].before :
                                 p # PartNamed(n) => wlog[i].after[p] = wlog[i].before[p]
            /\ \A n \in 1..k :
                  /\ PartNamed(n) \in DOMAIN fs
                  /\ fs[PartNamed(n)] = <<NonEmptyWrites[n].df.columns>> \o NonEmptyWrites[n].df.rows
            /\ run = 1 => DOMAIN fs = {PartNamed(n) : n \in 1..k}

\* two non-empty batches written with an empty one between them
C2_Witness ==
    /\ writer.kind = "parquet"
    /\ \E i, j, k \in 1..Len(wlog) :
          /\ i < j /\ j < k
          /\ ~DfEmpty(wlog[i].df) /\ DfEmpty(wlog[j].df) /\ ~DfEmpty(wlog[k].df)
    /\ PartNamed(2) \in DOMAIN fs
    /\ PartNamed(3) \notin DOMAIN fs

(* C3: when a run is interrupted, the sink holds exactly the matching rows
   of the batches written before the interruption, in order and under one
   header, in every sink mode, and nothing of a later batch. *)
C3_CrashAtomic == pc = "crashed" => SinkHoldsChunksDone

\* the same, for a run that started with an empty output directory
C3_CrashAtomicFirstRun == (pc = "crashed" /\ run = 1) => SinkHoldsChunksDone

(* C4: a second run on the same input with the same configuration, the
   output of the first run still in place, leaves the output as it was
   after the first run and reports the same counts. *)
C4_RerunIdempotent ==
    (pc = "done" /\ run >= 2) =>
        /\ fs = prev.fs
        /\ total_in = prev.total_in
        /\ total_out = prev.total_out
        /\ total_bad_empty_rows = prev.total_bad_empty_rows

(* C5: at the end of each source and at the end of the run the rows read
   are the rows matched plus the rows unmatched plus the fully empty rows:
   in_rows = out_rows + unmatched + empty_rows per source, and the same of
   the totals, the three classes having no row in common. *)
C5_RowCountIdentity ==
    /\ (pc = "files" /\ fidx >= 1) =>
          in_rows = out_rows + UnmatchedRows(CurFile) + empty_rows
    /\ pc = "done" =>
          total_in = total_out + UnmatchedUpTo(Len(args.in_files)) + total_bad_empty_rows

\* a finished run with a matched, an unmatched and a fully empty row
C5_Witness ==
    /\ pc = "done"
    /\ total_out >= 1 /\ total_bad_empty_rows >= 1
    /\ UnmatchedUpTo(Len(args.in_files)) >= 1

(* C9: a run that fails because no input file was found, or because a
   source lacks the state column, has not filtered, counted or written a
   batch of any source before it fails. *)
C9_FatalBeforeStreaming ==
    pc = "failed" =>
        /\ wlog = <<>>
        /\ in_rows = 0 /\ out_rows = 0 /\ empty_rows = 0
        /\ total_in = 0 /\ total_out = 0 /\ total_bad_empty_rows = 0

(* C10: the filter returns exactly the rows of the batch whose state value
   normalises into the allow-list (for target MO a row 'MO' and a row
   'Missouri' alike), in their order and unchanged, and the rows-seen and
   rows-matched counters grow by the size of the batch and of the result. *)
C10_FilterKeepsNormalisedMatches ==
    \A i \in 1..Len(wlog) :
        LET e == wlog[i]
        IN  /\ e.df.columns = e.chunk.columns
            /\ e.df.rows = SelectSeq(e.chunk.rows,
                                     LAMBDA r : MatchesNormalised(r, e.chunk.columns))
            /\ e.seen = Len(e.chunk.rows)
            /\ e.matched = Len(e.df.rows)

(* C10 as amended: the filter returns exactly the rows of the batch whose
   trimmed, upper-cased state value is equal to one of the trimmed,
   upper-cased allow-list texts, in their order and unchanged, and the
   counters grow by the size of the batch and of the result. *)
C10_FilterKeepsLiteralMatches ==
    \A i \in 1..Len(wlog) :
        LET e == wlog[i]
        IN  /\ e.df.columns = e.chunk.columns
            /\ e.df.rows = SelectSeq(e.chunk.rows,
                                     LAMBDA r : MatchesLiterally(r, e.chunk.columns))
            /\ e.seen = Len(e.chunk.rows)
            /\ e.matched = Len(e.df.rows)

\* a batch with a kept row written in another letter case and with a
\* leading blank, and a row that is not kept
C10_Witness ==
    \E i \in 1..Len(wlog) :
        /\ Len(wlog[i].chunk.rows) = 2
        /\ Len(wlog[i].df.rows) = 1
        /\ wlog[i].df.rows[1][1] = <<" ","M","i","s","s","o","u","r","i">>

\* the lines the reader dropped from the sources exhausted so far
RECURSIVE DroppedUpTo(_)
DroppedUpTo(f) ==
    IF f = 0 THEN 0 ELSE DroppedUpTo(f - 1) + Len(dropped_lines(args.in_files[f]))

\* the sum of a counter over the sources exhausted
RECURSIVE SumFinals(_, _)
SumFinals(n, name) ==
    IF n = 0 THEN 0 ELSE SumFinals(n - 1, name) + finals[n][name]

(* C17: the counters only grow: from one step of process_files to the next
   in_rows, out_rows and empty_rows do not decrease while the source stays
   the same, and total_in, total_out and total_bad_empty_rows never
   decrease; after every batch processed out_rows <= in_rows and
   empty_rows <= in_rows; and after the last source each total is the sum
   of the final values of that counter over the sources. *)
C17_CountersIncrementOnly ==
    /\ [](pc # "failed" => (out_rows <= in_rows /\ empty_rows <= in_rows))
    /\ [](pc = "done" =>
            /\ Len(finals) = Len(args.in_files)
            /\ total_in = SumFinals(Len(finals), "in_rows")
            /\ total_out = SumFinals(Len(finals), "out_rows")
            /\ total_bad_empty_rows = SumFinals(Len(finals), "empty_rows"))
    /\ [][/\ fidx' = fidx =>
                (in_rows' >= in_rows /\ out_rows' >= out_rows /\ empty_rows' >= empty_rows)
          /\ total_in' >= total_in
          /\ total_out' >= total_out
          /\ total_bad_empty_rows' >= total_bad_empty_rows]_vars

\* a finished run over two sources with rows read in both, a row matched
\* and a row fully empty
C17_Witness ==
    /\ pc = "done"
    /\ Len(finals) = 2
    /\ finals[1].in_rows >= 1 /\ finals[2].in_rows >= 1
    /\ total_out >= 1 /\ total_bad_empty_rows >= 1

\* the rows among the first n read from a source that the filter keeps
MatchingRows(file, n) ==
    IF n = 0 THEN <<>>
    ELSE state_filter([columns |-> file.columns, rows |-> SubSeq(read_rows(file), 1, n)],
                      args.state_col, allowed_states_norm(args.state_value)).rows

\* the number of rows of the current source read so far
RowsReadOfCurrent ==
    IF cidx * args.chunksize < Len(read_rows(CurFile))
    THEN cidx * args.chunksize ELSE Len(read_rows(CurFile))

\* the matching rows of the input read so far: file order, then row order
RECURSIVE MatchingUpTo(_)
MatchingUpTo(f) ==
    IF f = 0 THEN <<>>
    ELSE MatchingUpTo(f - 1) \o
         MatchingRows(args.in_files[f],
                      IF f = fidx THEN RowsReadOfCurrent
                      ELSE Len(read_rows(args.in_files[f])))

\* the data rows the sink holds: the lines after the header of the single
\* file, or the rows of the part files in the order of their numbers
RECURSIVE PartRows(_)
PartRows(n) ==
    IF n = 0 THEN <<>> ELSE PartRows(n - 1) \o Tail(FileLines(fs, PartPath(Base, n)))

SinkRows ==
    IF writer.kind = "parquet" THEN PartRows(writer.counter)
    ELSE IF FileLines(fs, writer.path) = <<>> THEN <<>>
    ELSE Tail(FileLines(fs, writer.path))

(* C18: the sources are drained one at a time in the order of the input
   list and the batches of a source are filtered and written in the order
   they are read: the batches handed to the filter are the chunks of the
   sources in that order, each once, and the rows in the sink are the
   matching rows of the input in file order, then row order. *)
C18_OutputInInputOrder ==
    writer.kind # "none" =>
        /\ [i \in 1..Len(wlog) |-> wlog[i].chunk] = ChunksDone(fidx)
        /\ SinkRows = IF writer.kind = "parquet" THEN MatchingUpTo(fidx)
                      ELSE [i \in 1..Len(MatchingUpTo(fidx)) |->
                               [j \in 1..Len(MatchingUpTo(fidx)[i]) |->
                                   CsvCell(MatchingUpTo(fidx)[i][j])]]

\* a finished run over two sources, the first with a batch of two
\* different matching rows, the second with a matching row
C18_Witness ==
    /\ pc = "done" /\ fidx = 2
    /\ Len(SinkRows) = 3
    /\ SinkRows[1] # SinkRows[2]
    /\ \E i \in 1..Len(wlog) : Len(wlog[i].df.rows) = 2

(* C13: an error raised while a source is read, other than the missing
   state column, does not end the run: the sources after it are still
   read, filtered and written and the run reaches its totals. *)
C13_ReadErrorDoesNotAbort ==
    failure = "EmptyDataError" => pc # "failed"

(* C14: every line the reader drops is counted: when a source is
   exhausted its empty_rows is at least the number of lines dropped from
   it, and at the end of the run total_bad_empty_rows is at least the
   number of lines dropped from all sources. *)
C14_DroppedLinesCounted ==
    /\ (pc = "files" /\ fidx >= 1) => empty_rows >= Len(dropped_lines(CurFile))
    /\ pc = "done" => total_bad_empty_rows >= DroppedUpTo(Len(args.in_files))

(* C19: on a single-file sink every batch of data rows written has the
   columns of the one header line of the file, in the same order, also
   when the batches come from sources whose columns differ. *)
C19_RowsFollowHeader ==
    (writer.kind \in {"csv", "csv.gz"} /\ FileLines(fs, writer.path) # <<>>) =>
        \A i \in 1..Len(NonEmptyWrites) :
            /\ NonEmptyWrites[i].df.columns = FileLines(fs, writer.path)[1]
            /\ \A j \in 1..Len(NonEmptyWrites[i].df.rows) :
                  Len(NonEmptyWrites[i].df.rows[j]) = Len(FileLines(fs, writer.path)[1])

----------------------------------------------------------------------------
(* clean_mo_waits.filter_state_auto *)

ZipCol == <<"zip">>

\* the bounds of the ZIP range taken for Missouri: 63000 <= z < 65900
ZipLo == 63000
ZipHi == 65900

\* faulty variant of the range test: the upper end is taken in
ZipInRange_upper_end_in(z) == z # <<>> /\ z[1] >= ZipLo /\ z[1] <= ZipHi

\* a numeric cell is <<n>>, or <<>> when the value is missing;
\* (z >= 63000) & (z < 65900), a missing value counting as no match
ZipInRange(z) == z # <<>> /\ z[1] >= ZipLo /\ z[1] < ZipHi

\* faulty variant of filter_state_auto: the mode says "state" whatever was used
filter_state_auto_says_state(df, state_abbrev) ==
    LET abbr == StrUpper(state_abbrev)
        hasState == HasCol(df.columns, StateCol)
        byState ==
            IF hasState
            THEN [columns |-> df.columns,
                  rows |-> SelectSeq(df.rows, LAMBDA r :
                      normalize_state_value(r[ColIndex(df.columns, StateCol)]) = abbr)]
            ELSE [columns |-> df.columns, rows |-> <<>>]
    IN  IF hasState /\ Len(byState.rows) > 0
        THEN [status |-> "ok", df |-> byState, mode |-> "state"]
        ELSE IF abbr = <<"M","O">> /\ HasCol(df.columns, ZipCol)
        THEN [status |-> "ok",
              df |-> [columns |-> df.columns,
                      rows |-> SelectSeq(df.rows, LAMBDA r :
                          ZipInRange(r[ColIndex(df.columns, ZipCol)]))],
              mode |-> "state"]
        ELSE [status |-> "ok", df |-> df, mode |-> "state"]

\* faulty variant of filter_state_auto: the rows with a blank state and a
\* ZIP in the range are added to the rows matched by state
filter_state_auto_adds_blank_by_zip(df, state_abbrev) ==
    LET abbr == StrUpper(state_abbrev)
        hasState == HasCol(df.columns, StateCol)
        hasZip == HasCol(df.columns, ZipCol)
        byState ==
            IF hasState
            THEN [columns |-> df.columns,
                  rows |-> SelectSeq(df.rows, LAMBDA r :
                      normalize_state_value(r[ColIndex(df.columns, StateCol)]) = abbr)]
            ELSE [columns |-> df.columns, rows |-> <<>>]
        widened ==
            [columns |-> df.columns,
             rows |-> SelectSeq(df.rows, LAMBDA r :
                 \/ normalize_state_value(r[ColIndex(df.columns, StateCol)]) = abbr
                 \/ /\ hasZip /\ abbr = <<"M","O">>
                    /\ r[ColIndex(df.columns, StateCol)] = NA
                    /\ ZipInRange(r[ColIndex(df.columns, ZipCol)]))]
    IN  IF hasState /\ Len(byState.rows) > 0
        THEN [status |-> "ok", df |-> widened, mode |-> "state"]
        ELSE IF abbr = <<"M","O">> /\ hasZip
        THEN [status |-> "ok",
              df |-> [columns |-> df.columns,
                      rows |-> SelectSeq(df.rows, LAMBDA r :
                          ZipInRange(r[ColIndex(df.columns, ZipCol)]))],
              mode |-> "zip"]
        ELSE [status |-> "ok", df |-> df, mode |-> "none"]

\* filter_state_auto(df, state_abbrev): the frame returned and the mode
filter_state_auto(df, state_abbrev) ==
    LET abbr == StrUpper(state_abbrev)
        hasState == HasCol(df.columns, StateCol)
        byState ==
            IF hasState
            THEN [columns |-> df.columns,
                  rows |-> SelectSeq(df.rows, LAMBDA r :
                      normalize_state_value(r[ColIndex(df.columns, StateCol)]) = abbr)]
            ELSE [columns |-> df.columns, rows |-> <<>>]
    IN  IF hasState /\ Len(byState.rows) > 0
        THEN [status |-> "ok", df |-> byState, mode |-> "state"]
        ELSE IF abbr = <<"M","O">> /\ HasCol(df.columns, ZipCol)
        THEN [status |-> "ok",
              df |-> [columns |-> df.columns,
                      rows |-> SelectSeq(df.rows, LAMBDA r :
                          ZipInRange(r[ColIndex(df.columns, ZipCol)]))],
              mode |-> "zip"]
        ELSE [status |-> "ok", df |-> df, mode |-> "none"]

\* state_filter(df, state_col, allowed_states_norm), with the KeyError it raises
state_filter_call(df, state_col, states) ==
    IF state_filter_raises(df, state_col)
    THEN [status |-> "KeyError", df |-> [columns |-> <<>>, rows |-> <<>>], mode |-> "isin"]
    ELSE [status |-> "ok", df |-> state_filter(df, state_col, allowed_states_norm(states)),
          mode |-> "isin"]

----------------------------------------------------------------------------
(* Specification SpecFilter: one call of filter_state_auto or of state_filter
   on one data frame *)

StateCells ==
    { <<"M","O">>,
      <<"M","i","s","s","o","u","r","i">>,
      <<"K","S">>,
      <<"X","X">>,
      NA }

ZipCells == { <<65201>>, <<66002>>, <<>> }

FrameShapes ==
    { [columns |-> <<StateCol, ZipCol>>, cells |-> {<<s, z>> : s \in StateCells, z \in ZipCells}],
      [columns |-> <<StateCol>>, cells |-> {<<s>> : s \in StateCells}],
      [columns |-> <<ZipCol>>, cells |-> {<<z>> : z \in ZipCells}] }

Frames ==
    UNION {{[columns |-> sh.columns, rows |-> rows] : rows \in [1..n -> sh.cells]} :
              sh \in FrameShapes, n \in 0..MaxFrameRows}

\* the frame with the rows MO/65201, Missouri/63101, KS/66002 and a row
\* with a blank state and ZIP 65301
MixedFrame ==
    [columns |-> <<StateCol, ZipCol, DtotCol>>,
     rows |-> << << <<"M","O">>, <<65201>>, <<5>> >>,
                 << <<"M","i","s","s","o","u","r","i">>, <<63101>>, <<40>> >>,
                 << <<"K","S">>, <<66002>>, <<10>> >>,
                 << NA, <<65301>>, <<3>> >> >>]

\* frames whose state column is blank in every row: every ZIP within the
\* range taken for Missouri, and ZIPs on both sides of each end of it
AllBlankInRange ==
    [columns |-> <<StateCol, ZipCol>>,
     rows |-> << <<NA, <<63000>> >>, <<NA, <<64501>> >>, <<NA, <<65899>> >> >>]

AllBlankAtEnds ==
    [columns |-> <<StateCol, ZipCol>>,
     rows |-> << <<NA, <<62999>> >>, <<NA, <<63000>> >>,
                 <<NA, <<65899>> >>, <<NA, <<65900>> >> >>]

ScenarioFrames == {MixedFrame, AllBlankInRange, AllBlankAtEnds}

FilterInit ==
    /\ PipeIdle
    /\ NormIdle
    /\ CleanIdle
    /\ fdf \in Frames \cup ScenarioFrames
    /\ fabbr \in { <<"M","O">>, <<"k","s">> }
    /\ fstates \in { parse_state_value(<<>>), parse_state_value(<< <<"m","o">> >>),
                     parse_state_value(<< <<"x","x">> >>) }
    /\ fres = NoResult
    /\ fpc = "start"

\* df, filter_mode = filter_state_auto(df, args.state)
CallFilterStateAuto ==
    /\ fpc = "start"
    /\ fres' = filter_state_auto(fdf, fabbr)
    /\ fpc' = "auto"
    /\ UNCHANGED <<fdf, fabbr, fstates>>
    /\ UNCHANGED <<pvars, nvars, cvars>>

\* filtered = state_filter(chunk, state_col, allowed_states_norm)
CallStateFilter ==
    /\ fpc = "start"
    /\ fres' = state_filter_call(fdf, StateCol, fstates)
    /\ fpc' = "plain"
    /\ UNCHANGED <<fdf, fabbr, fstates>>
    /\ UNCHANGED <<pvars, nvars, cvars>>

FilterNext == CallFilterStateAuto \/ CallStateFilter

SpecFilter == FilterInit /\ [][FilterNext]_vars

\* the value is a code or a full name, or has one among its tokens
Recognisable(v) ==
    /\ v # NA
    /\ LET u == StrUpper(StrStrip(v))
           tokens == StrSplit(ReSubNonUpper(u))
       IN  \/ u \in StateCodes \cup FullNames
           \/ \E i \in 1..Len(tokens) : tokens[i] \in StateCodes \cup FullNames

\* the state cells of the rows of a frame
StateCellsOf(df) ==
    IF HasCol(df.columns, StateCol)
    THEN {df.rows[i][ColIndex(df.columns, StateCol)] : i \in 1..Len(df.rows)}
    ELSE {}

\* the trimmed, upper-cased texts of the allow-list
LiteralAllowed == {StrUpper(StrStrip(fstates[i])) : i \in 1..Len(fstates)}

(* C7: a state value that is not a code, a full name or a text with one
   among its tokens (a missing value included) is normalised to something
   that is no code, and no row with such a value is in the output of
   filter_state_auto or of state_filter, whatever strategy was used. *)
C7_UnrecognisedNeverInOutput ==
    /\ \A v \in StateCellsOf(fdf) :
          ~Recognisable(v) => normalize_state_value(v) \notin StateCodes
    /\ fres.status = "ok" =>
          \A v \in StateCellsOf(fres.df) : Recognisable(v)

(* C7 as amended: such a value is normalised to something that is no code;
   no row with such a value is in the output of filter_state_auto when the
   mode is "state" (under "zip" and "none" such rows are returned); and
   state_filter, which compares texts and does not normalise, returns such
   a row only when the allow-list names its trimmed, upper-cased text. *)
C7_UnrecognisedOnlyByProxyOrLiteral ==
    /\ \A v \in StateCellsOf(fdf) :
          ~Recognisable(v) => normalize_state_value(v) \notin StateCodes
    /\ (fpc = "auto" /\ fres.mode = "state") =>
          \A v \in StateCellsOf(fres.df) : Recognisable(v)
    /\ (fpc = "plain" /\ fres.status = "ok") =>
          \A v \in StateCellsOf(fres.df) :
              ~Recognisable(v) => (v # NA /\ StrUpper(StrStrip(v)) \in LiteralAllowed)

\* filter_state_auto matched by state on a frame that also has a row with
\* an unrecognised value and a row with a missing one
C7_Witness ==
    /\ fpc = "auto" /\ fres.mode = "state"
    /\ Len(fres.df.rows) = 1
    /\ \E v \in StateCellsOf(fdf) : ~Recognisable(v)
    /\ Len(fdf.rows) = 2

(* C8: when the frame has no state column, the filter raises a
   missing-column error and returns nothing: no empty match, no subset
   chosen by ZIP, not the unfiltered frame. Both filters do. *)
C8_MissingColumnIsFatal ==
    (fpc \in {"auto", "plain"} /\ ~HasCol(fdf.columns, StateCol)) =>
        fres.status = "KeyError"

\* state_filter alone raises on a frame with no state column
C8_StateFilterRaises ==
    (fpc = "plain" /\ ~HasCol(fdf.columns, StateCol)) => fres.status = "KeyError"

----------------------------------------------------------------------------
(* The strategy of filter_state_auto *)

\* the target of the call: abbr = state_abbrev.upper()
Target == StrUpper(fabbr)

\* the rows of the frame whose state value normalises to the target
\* (none when the frame has no state column)
RowsOfTarget ==
    IF HasCol(fdf.columns, StateCol)
    THEN SelectSeq(fdf.rows, LAMBDA r :
             normalize_state_value(r[ColIndex(fdf.columns, StateCol)]) = Target)
    ELSE <<>>

\* the rows of the frame whose ZIP is one of 63000..65899
RowsOfZipRange ==
    IF HasCol(fdf.columns, ZipCol)
    THEN SelectSeq(fdf.rows, LAMBDA r :
             LET z == r[ColIndex(fdf.columns, ZipCol)]
             IN  z # <<>> /\ z[1] \in 63000..65899)
    ELSE <<>>

\* a row with a blank state and a ZIP in the range
BlankInRange(r, columns) ==
    /\ HasCol(columns, StateCol) /\ HasCol(columns, ZipCol)
    /\ r[ColIndex(columns, StateCol)] = NA
    /\ ZipInRange(r[ColIndex(columns, ZipCol)])

(* C11: when at least one row matches the target by its state value,
   filter_state_auto returns exactly the rows whose state value normalises
   to the target, in their order, the ZIP fallback is not applied and the
   mode is "state"; a row with a blank state is not returned even when its
   ZIP is in the range. For the rows MO/65201, Missouri/63101, KS/66002,
   blank/65301 and target MO the result is the two rows MO and Missouri,
   also from state_filter when the allow-list names MO. *)
C11_StateMatchWinsOverFallback ==
    /\ (fpc = "auto" /\ Len(RowsOfTarget) > 0) =>
          /\ fres.status = "ok"
          /\ fres.mode = "state"
          /\ fres.df.columns = fdf.columns
          /\ fres.df.rows = RowsOfTarget
          /\ \A i \in 1..Len(fres.df.rows) : ~BlankInRange(fres.df.rows[i], fdf.columns)
    /\ (fdf = MixedFrame /\
        (\/ fpc = "auto" /\ Target = <<"M","O">>
         \/ fpc = "plain" /\ <<"M","O">> \in LiteralAllowed)) =>
          fres.df.rows = <<MixedFrame.rows[1], MixedFrame.rows[2]>>

\* the four rows filtered for MO: two returned, the blank row with its ZIP
\* in the range left out
C11_Witness ==
    /\ fpc = "auto" /\ fdf = MixedFrame /\ Target = <<"M","O">>
    /\ fres.mode = "state" /\ Len(fres.df.rows) = 2
    /\ BlankInRange(fdf.rows[4], fdf.columns)

(* C12: the mode is "zip" if and only if the state match gives no row of
   the whole frame, the target is MO and the frame has a zip column; the
   rows returned are then exactly those whose ZIP is one of 63000..65899
   (all rows when every ZIP is); and the mode always names what produced
   the rows returned: "state" the state match, "zip" the ZIP range, "none"
   no filter at all, the frame being returned as it is. *)
C12_FallbackPolicy ==
    fpc = "auto" =>
        /\ fres.mode = "zip" <=>
              (Len(RowsOfTarget) = 0 /\ Target = <<"M","O">> /\ HasCol(fdf.columns, ZipCol))
        /\ fres.mode \in {"state", "zip", "none"}
        /\ fres.df.columns = fdf.columns
        /\ fres.mode = "state" => (fres.df.rows = RowsOfTarget /\ Len(RowsOfTarget) > 0)
        /\ fres.mode = "zip" => fres.df.rows = RowsOfZipRange
        /\ fres.mode = "none" => fres.df.rows = fdf.rows

\* an all-blank state column with every ZIP in the range: all rows are
\* returned by the ZIP range
C12_Witness ==
    /\ fpc = "auto" /\ fdf = AllBlankInRange
    /\ fres.mode = "zip" /\ fres.df.rows = fdf.rows

\* the ends of the range: 63000 and 65899 are in, 62999 and 65900 are not
C12_WitnessEnds ==
    /\ fpc = "auto" /\ fdf = AllBlankAtEnds
    /\ fres.mode = "zip"
    /\ fres.df.rows = <<AllBlankAtEnds.rows[2], AllBlankAtEnds.rows[3]>>

----------------------------------------------------------------------------
(* clean_mo_waits: coercions, year, window, de-duplication, derived fields *)

YearCol == <<"year">>
ActivityCol == <<"activitydatetime">>
NonVaCol == <<"non_va">>
YearDerivedCol == <<"__year">>
WaitDaysCol == <<"wait_days">>
\* the row index of a pandas frame, kept as a last column no operation reads
IndexCol == <<"<index>">>

\* parse_dates: for col in ["activitydatetime", "dta", "dts", "dtc"]
DateCols == <<ActivityCol, <<"dta">>, <<"dts">>, <<"dtc">>>>

\* coerce_numeric: for col in ["dtot", "stopcode", "year", "month", "zip", "non_va", "sta3n"]
NumericCols ==
    <<DtotCol, <<"stopcode">>, YearCol, <<"month">>, ZipCol, NonVaCol, <<"sta3n">>>>

\* infer_year: for c in ["dta", "activitydatetime", "dtc"]
YearSourceCols == << <<"dta">>, ActivityCol, <<"dtc">> >>

\* de-dup: the key columns, in this order
DedupKeyCols ==
    << <<"patientsid">>, ActivityCol, <<"sta3n">>, <<"stopcode">>, NonVaCol, DtotCol >>

IsDigit(c) == \E i \in 1..Len(DigitChars) : DigitChars[i] = c

DigitValue(c) == (CHOOSE i \in 1..Len(DigitChars) : DigitChars[i] = c) - 1

RECURSIVE IntOf(_)
IntOf(s) ==
    IF s = <<>> THEN 0 ELSE IntOf(SubSeq(s, 1, Len(s) - 1)) * 10 + DigitValue(s[Len(s)])

\* pd.to_numeric(v, errors="coerce") on one cell: the number a text of
\* digits spells, else missing (<<>>)
to_numeric(v) ==
    IF v # <<>> /\ (\A i \in 1..Len(v) : IsDigit(v[i])) THEN <<IntOf(v)>> ELSE <<>>

\* a text of the form dddd-dd-dd
IsTimestamp(v) ==
    /\ Len(v) = 10
    /\ v[5] = "-" /\ v[8] = "-"
    /\ \A i \in {1, 2, 3, 4, 6, 7, 9, 10} : IsDigit(v[i])

\* pd.to_datetime(v, errors="coerce", utc=True) on one cell: the timestamp,
\* else NaT (<<>>)
to_datetime(v) == IF IsTimestamp(v) THEN v ELSE <<>>

\* series.dt.year on one cell
dt_year(t) == IF t = <<>> THEN <<>> ELSE <<IntOf(SubSeq(t, 1, 4))>>

InSeq(x, seq) == \E i \in 1..Len(seq) : seq[i] = x

\* parse_dates(df) and coerce_numeric(df) on one cell of column col
coerce_cell(col, v) ==
    IF InSeq(col, DateCols) THEN to_datetime(v)
    ELSE IF col = NonVaCol THEN (IF to_numeric(v) = <<>> THEN <<0>> ELSE to_numeric(v))
    ELSE IF InSeq(col, NumericCols) THEN to_numeric(v)
    ELSE v

\* df = coerce_numeric(parse_dates(df))
coerce(df) ==
    [columns |-> df.columns,
     rows |-> [i \in 1..Len(df.rows) |->
                  [j \in 1..Len(df.columns) |-> coerce_cell(df.columns[j], df.rows[i][j])]]]

\* the cells of one column
Column(df, name) == [i \in 1..Len(df.rows) |-> df.rows[i][ColIndex(df.columns, name)]]

AnyNotNa(cells) == \E i \in 1..Len(cells) : cells[i] # <<>>

\* the columns of YearSourceCols, from position k on, that can give a year
RECURSIVE year_from_dates(_, _)
year_from_dates(df, k) ==
    IF k > Len(YearSourceCols) THEN [i \in 1..Len(df.rows) |-> <<>>]
    ELSE IF HasCol(df.columns, YearSourceCols[k])
            /\ AnyNotNa(Column(df, YearSourceCols[k]))
         THEN [i \in 1..Len(df.rows) |-> dt_year(Column(df, YearSourceCols[k])[i])]
         ELSE year_from_dates(df, k + 1)

\* infer_year(df), df already coerced
infer_year(df) ==
    IF HasCol(df.columns, YearCol) /\ AnyNotNa(Column(df, YearCol))
    THEN Column(df, YearCol)
    ELSE year_from_dates(df, 1)

\* df[name] = cells: a new last column, or the column replaced
with_column(df, name, cells) ==
    IF HasCol(df.columns, name)
    THEN [columns |-> df.columns,
          rows |-> [i \in 1..Len(df.rows) |->
                       [df.rows[i] EXCEPT ![ColIndex(df.columns, name)] = cells[i]]]]
    ELSE [columns |-> Append(df.columns, name),
          rows |-> [i \in 1..Len(df.rows) |-> Append(df.rows[i], cells[i])]]

\* df[(df["__year"] >= year_min) & (df["__year"] <= year_max)]: a missing
\* year compares as missing and the row is not selected
year_window(df, year_min, year_max) ==
    [columns |-> df.columns,
     rows |-> SelectSeq(df.rows, LAMBDA r :
                 LET y == r[ColIndex(df.columns, YearDerivedCol)]
                 IN  y # <<>> /\ y[1] >= year_min /\ y[1] <= year_max)]

\* keys = [c for c in [...] if c in df.columns]
dedup_keys(df) == SelectSeq(DedupKeyCols, LAMBDA c : HasCol(df.columns, c))

\* the cells of a row under the columns named (all but the index when none)
KeyOf(df, r, keys) ==
    IF keys = <<>>
    THEN [j \in 1..Len(df.columns) |-> IF df.columns[j] = IndexCol THEN <<>> ELSE r[j]]
    ELSE [k \in 1..Len(keys) |-> r[ColIndex(df.columns, keys[k])]]

\* df.drop_duplicates(subset=keys): the first row of every key is kept
drop_duplicates(df, keys) ==
    [columns |-> df.columns,
     rows |-> LET keep == {i \in 1..Len(df.rows) :
                              \A j \in 1..(i - 1) :
                                  KeyOf(df, df.rows[j], keys) # KeyOf(df, df.rows[i], keys)}
                  Nth(S, n) == CHOOSE i \in S : Cardinality({j \in S : j < i}) = n - 1
              IN  [n \in 1..Cardinality(keep) |-> df.rows[Nth(keep, n)]]]

\* threshold(row): no specialty map, so the category is "unknown"
threshold(wd) == IF wd = <<>> THEN <<>> ELSE IF wd[1] <= 28 THEN <<1>> ELSE <<0>>

\* derive_fields(df, None)
derive_fields(df) ==
    LET n == Len(df.rows)
        care == [i \in 1..n |->
                    IF HasCol(df.columns, NonVaCol) /\ Column(df, NonVaCol)[i] = <<1>>
                    THEN <<"Community">> ELSE <<"VA">>]
        zip3 == [i \in 1..n |->
                    IF HasCol(df.columns, ZipCol) /\ Column(df, ZipCol)[i] # <<>>
                    THEN <<Column(df, ZipCol)[i][1] \div 100>> ELSE <<>>]
        wait == [i \in 1..n |->
                    \* (no frame here has dta and dtc without dtot)
                    IF HasCol(df.columns, DtotCol) THEN Column(df, DtotCol)[i] ELSE <<>>]
        d1 == with_column(df, <<"care_setting">>, care)
        d2 == with_column(d1, <<"veteran_zip3">>, zip3)
        d3 == with_column(d2, WaitDaysCol, wait)
        d4 == with_column(d3, <<"specialty_category">>, [i \in 1..n |-> <<"unknown">>])
    IN  with_column(d4, <<"met_access_standard">>, [i \in 1..n |-> threshold(wait[i])])

\* the frame without its index column, as df.to_csv(path, index=False) writes it
save_csv(df) ==
    LET cols == SelectSeq([j \in 1..Len(df.columns) |-> j],
                          LAMBDA j : df.columns[j] # IndexCol)
    IN  <<[k \in 1..Len(cols) |-> df.columns[cols[k]]]>> \o
        [i \in 1..Len(df.rows) |-> [k \in 1..Len(cols) |-> df.rows[i][cols[k]]]]

\* df.index
IndexOf(df) ==
    IF HasCol(df.columns, IndexCol)
    THEN [i \in 1..Len(df.rows) |-> df.rows[i][ColIndex(df.columns, IndexCol)][1]]
    ELSE <<>>

\* len(df), df.shape[1]
NumRows(df) == Len(df.rows)
NumCols(df) == Len(SelectSeq(df.columns, LAMBDA c : c # IndexCol))

----------------------------------------------------------------------------
(* Specification SpecClean: one run of main of clean_mo_waits on one input
   file, with no specialty map *)

\* --year-min and --year-max as they default
YearMinDefault == 2014
YearMaxDefault == 2025

CleanStateCells == { <<"M","O">>, <<"K","S">> }

\* a year in the window, a year before it, a text that is no number, blank
CleanYearCells == { <<"2","0","2","0">>, <<"2","0","1","3">>, <<"2","0","x","4">>, NA }

\* a timestamp of a year in the window, and a text that is no timestamp
CleanTimeCells ==
    { <<"2","0","2","0","-","0","1","-","0","5">>, <<"n","/","a">> }

CleanDtotCells == { <<"5">>, <<"x">> }

CleanShapes ==
    { [columns |-> <<StateCol, YearCol, DtotCol>>,
       cells |-> {<<s, y, d>> : s \in CleanStateCells, y \in CleanYearCells,
                                d \in CleanDtotCells}],
      [columns |-> <<StateCol, ActivityCol, DtotCol>>,
       cells |-> {<<s, t, d>> : s \in CleanStateCells, t \in CleanTimeCells,
                                d \in CleanDtotCells}] }

CleanFrames ==
    UNION {{[columns |-> sh.columns, rows |-> rows] : rows \in [1..n -> sh.cells]} :
              sh \in CleanShapes, n \in 0..MaxFrameRows}

CleanInit ==
    /\ PipeIdle
    /\ NormIdle
    /\ FilterIdle
    /\ cargs \in [state : {<<"M","O">>}, year_min : {YearMinDefault},
                  year_max : {YearMaxDefault}, no_dedup : BOOLEAN]
    /\ craw \in CleanFrames
    /\ cpc = "read"
    /\ CleanStart

\* df = pd.read_csv(inp); the shape; parse_dates, coerce_numeric, infer_year
CleanRead ==
    /\ cpc = "read"
    /\ n_raw_rows' = Len(craw.rows)
    /\ n_raw_cols' = Len(craw.columns)
    /\ LET indexed == with_column(craw, IndexCol, [i \in 1..Len(craw.rows) |-> <<i>>])
           coerced == coerce(indexed)
       IN  cdf' = with_column(coerced, YearDerivedCol, infer_year(coerced))
    /\ cpc' = "filter"
    /\ UNCHANGED <<cargs, craw, filter_mode, before_window, after_window,
                   removed_dups, cleaned_csv, summary_rows, chist>>

\* df, filter_mode = filter_state_auto(df, args.state)
CleanFilter ==
    /\ cpc = "filter"
    /\ LET res == filter_state_auto(cdf, cargs.state)
       IN  /\ cdf' = res.df
           /\ filter_mode' = res.mode
           /\ chist' = [chist EXCEPT !.filtered = IndexOf(res.df)]
    /\ cpc' = "window"
    /\ UNCHANGED <<cargs, craw, n_raw_rows, n_raw_cols, before_window, after_window,
                   removed_dups, cleaned_csv, summary_rows>>

\* the year window and the two lengths around it
CleanWindow ==
    /\ cpc = "window"
    /\ before_window' = NumRows(cdf)
    /\ cdf' = year_window(cdf, cargs.year_min, cargs.year_max)
    /\ after_window' = NumRows(cdf')
    /\ chist' = [chist EXCEPT !.windowed = IndexOf(cdf')]
    /\ cpc' = "dedup"
    /\ UNCHANGED <<cargs, craw, n_raw_rows, n_raw_cols, filter_mode, removed_dups,
                   cleaned_csv, summary_rows>>

\* removed_dups = 0; if not args.no_dedup: drop_duplicates and count
CleanDedup ==
    /\ cpc = "dedup"
    /\ IF ~cargs.no_dedup
       THEN /\ cdf' = drop_duplicates(cdf, dedup_keys(cdf))
            /\ removed_dups' = NumRows(cdf) - NumRows(cdf')
       ELSE /\ cdf' = cdf
            /\ removed_dups' = 0
    /\ chist' = [chist EXCEPT !.deduped = IndexOf(cdf')]
    /\ cpc' = "save"
    /\ UNCHANGED <<cargs, craw, n_raw_rows, n_raw_cols, filter_mode, before_window,
                   after_window, cleaned_csv, summary_rows>>

\* df = derive_fields(df, spec_map); save_csv(df, outp)
CleanSave ==
    /\ cpc = "save"
    /\ cdf' = derive_fields(cdf)
    /\ cleaned_csv' = save_csv(cdf')
    /\ cpc' = "summary"
    /\ UNCHANGED <<cargs, craw, n_raw_rows, n_raw_cols, filter_mode, before_window,
                   after_window, removed_dups, summary_rows, chist>>

\* after_filter_before_dedup and the rows of cleaning_summary.csv
CleanSummary ==
    /\ cpc = "summary"
    /\ LET after_filter_before_dedup == after_window + removed_dups
       IN  summary_rows' =
               [raw |-> n_raw_rows,
                after_filter_before_dedup |-> after_filter_before_dedup,
                removed_dups |-> removed_dups,
                final |-> NumRows(cdf),
                raw_cols |-> n_raw_cols,
                final_cols |-> NumCols(cdf)]
    /\ cpc' = "done"
    /\ UNCHANGED <<cargs, craw, cdf, n_raw_rows, n_raw_cols, filter_mode, before_window,
                   after_window, removed_dups, cleaned_csv, chist>>

CleanNext ==
    \/ CleanRead /\ UNCHANGED <<pvars, nvars, fvars>>
    \/ CleanFilter /\ UNCHANGED <<pvars, nvars, fvars>>
    \/ CleanWindow /\ UNCHANGED <<pvars, nvars, fvars>>
    \/ CleanDedup /\ UNCHANGED <<pvars, nvars, fvars>>
    \/ CleanSave /\ UNCHANGED <<pvars, nvars, fvars>>
    \/ CleanSummary /\ UNCHANGED <<pvars, nvars, fvars>>

SpecClean == CleanInit /\ [][CleanNext]_vars

\* row i of the input has, in a date or numeric column, a text that is
\* there but cannot be parsed
HasAnomaly(i) ==
    \E j \in 1..Len(craw.columns) :
        /\ InSeq(craw.columns[j], DateCols) \/ InSeq(craw.columns[j], NumericCols)
        /\ craw.rows[i][j] # NA
        /\ coerce_cell(craw.columns[j], craw.rows[i][j]) = <<>>

\* the year main works with for row i of the input
YearOfRow(i) == infer_year(coerce(craw))[i]

\* row i has a year, and it is outside the window
YearOutsideWindow(i) ==
    /\ YearOfRow(i) # <<>>
    /\ YearOfRow(i)[1] < cargs.year_min \/ YearOfRow(i)[1] > cargs.year_max

\* row i was taken out as the duplicate of an earlier row
RemovedAsDuplicate(i) == InSeq(i, chist.windowed) /\ ~InSeq(i, chist.deduped)

(* C15: a text that cannot be parsed in a date or numeric column makes the
   field missing and never removes the row: every row that passes the
   state filter, has such a text, has no year outside the window and is no
   duplicate of an earlier row is in the cleaned output. *)
C15_AnomalyKeepsRow ==
    cpc = "done" =>
        \A i \in 1..Len(craw.rows) :
            (/\ InSeq(i, chist.filtered)
             /\ HasAnomaly(i)
             /\ ~YearOutsideWindow(i)
             /\ ~RemovedAsDuplicate(i)) => InSeq(i, IndexOf(cdf))

\* what does hold: a row that passes the state filter, has a year inside
\* the window and is no duplicate of an earlier row is in the cleaned
\* output, whatever its other fields hold
C15_RowWithYearInWindowKept ==
    cpc = "done" =>
        \A i \in 1..Len(craw.rows) :
            (/\ InSeq(i, chist.filtered)
             /\ YearOfRow(i) # <<>> /\ ~YearOutsideWindow(i)
             /\ ~RemovedAsDuplicate(i)) =>
                /\ InSeq(i, IndexOf(cdf))
                /\ Len(cleaned_csv) = Len(cdf.rows) + 1

(* C20: the count the summary reports as records after the year window is
   the number of rows df has after the year window and before the
   de-duplication, and it is the final count reported plus the number of
   duplicates reported as removed. *)
C20_SummaryArithmetic ==
    cpc = "done" =>
        /\ summary_rows.after_filter_before_dedup = Len(chist.windowed)
        /\ summary_rows.after_filter_before_dedup =
              summary_rows.final + summary_rows.removed_dups

\* what does hold: final count plus duplicates removed is the number of
\* rows after the year window
C20_FinalPlusRemovedIsWindowed ==
    cpc = "done" =>
        /\ summary_rows.final + summary_rows.removed_dups = Len(chist.windowed)
        /\ summary_rows.final = Len(cleaned_csv) - 1

----------------------------------------------------------------------------
(* Cell values given to the normaliser *)

Spaces(n) == [i \in 1..n |-> " "]

\* every blank of s followed by e more blanks
RECURSIVE WidenBlanks(_, _)
WidenBlanks(s, e) ==
    IF s = <<>> THEN <<>>
    ELSE IF Head(s) = " " THEN <<" ">> \o Spaces(e) \o WidenBlanks(Tail(s), e)
         ELSE <<Head(s)>> \o WidenBlanks(Tail(s), e)

\* first letter of every word upper case, the others lower case
TitleCase(s) ==
    [i \in 1..Len(s) |-> IF i = 1 \/ s[i - 1] = " " THEN UpperChar(s[i]) ELSE LowerChar(s[i])]

LetterCases(s) == {StrUpper(s), StrLower(s), TitleCase(s)}

\* the spellings of text s: any of three letter cases, up to MaxPad extra
\* blanks in front, behind and after each inner blank
Spellings(s) ==
    {Spaces(l) \o WidenBlanks(c, e) \o Spaces(t) :
        c \in LetterCases(s), l \in 0..MaxPad, t \in 0..MaxPad, e \in 0..MaxPad}

\* values that are neither a code nor a full name
OtherCells ==
    { NA,
      <<"X","X">>,
      <<"U","n","k","n","o","w","n">>,
      <<"2","9">>,
      <<"M","i","s","s","o","u","r","y">>,
      <<"S","t","."," ","L","o","u","i","s",","," ","M","O">>,
      <<"K","a","n","s","a","s"," ","C","i","t","y">>,
      <<"m","o","-","6","5","2","0","1">>,
      <<"K","a","n","s","a","s",","," ","M","O">>,
      <<"o","h","i","o"," ","o","r"," ","u","t","a","h">> }

----------------------------------------------------------------------------
(* Specification SpecNorm: normalize_state_series applied to one cell *)

NormInit ==
    /\ PipeIdle
    /\ FilterIdle
    /\ CleanIdle
    /\ npc = "start"
    /\ nout = Unset
    /\ nagain = Unset
    /\ \/ \E c \in StateCodes :
            /\ nsrc = c
            /\ nraw \in Spellings(c) \cup Spellings(STATE_FULL_NAME(c))
       \/ /\ nsrc = NoCode
          /\ nraw \in OtherCells

\* norm = normalize_state_series(df["state"]) for the one cell
NormApply ==
    /\ npc = "start"
    /\ nout' = normalize_state_value(nraw)
    /\ npc' = "done"
    /\ UNCHANGED <<nraw, nsrc, nagain>>
    /\ UNCHANGED <<pvars, fvars, cvars>>

\* normalize_state_series applied to the series it returned
NormReapply ==
    /\ npc = "done"
    /\ nagain' = normalize_state_value(nout)
    /\ npc' = "again"
    /\ UNCHANGED <<nraw, nsrc, nout>>
    /\ UNCHANGED <<pvars, fvars, cvars>>

NormNext == NormApply \/ NormReapply

SpecNorm == NormInit /\ [][NormNext]_vars

----------------------------------------------------------------------------
\* the first of the tokens that is in the set, Unset when none is
RECURSIVE FirstTokenIn(_, _)
FirstTokenIn(tokens, S) ==
    IF tokens = <<>> THEN Unset
    ELSE IF Head(tokens) \in S THEN Head(tokens)
    ELSE FirstTokenIn(Tail(tokens), S)

\* the rules of the normaliser in their stated precedence, first match
\* wins: the trimmed upper-cased value is a code; a token is a code; a
\* token is a full name; the whole value is a full name; else the trimmed
\* upper-cased value itself
RulesInPrecedence(v) ==
    LET u == StrUpper(StrStrip(v))
        tokens == StrSplit([i \in 1..Len(u) |-> IF IsUpperLetter(u[i]) THEN u[i] ELSE " "])
    IN  CASE u \in StateCodes -> u
          [] u \notin StateCodes /\ FirstTokenIn(tokens, StateCodes) # Unset ->
                FirstTokenIn(tokens, StateCodes)
          [] u \notin StateCodes /\ FirstTokenIn(tokens, StateCodes) = Unset
                /\ FirstTokenIn(tokens, FullNames) # Unset ->
                full_to_code(FirstTokenIn(tokens, FullNames))
          [] OTHER -> IF u \in FullNames THEN full_to_code(u) ELSE u

(* C16: the normaliser applies its rules in the stated precedence, first
   match wins: for every text given to it the result is what the rules
   give when they are tried in the order code, token that is a code, token
   that is a full name, whole value that is a full name, pass-through. *)
C16_RulesInStatedPrecedence ==
    (npc = "done" /\ nraw # NA) => nout = RulesInPrecedence(nraw)

\* a value with a token that is a full name in front of a token that is a
\* code: the code wins
C16_Witness ==
    /\ npc = "done"
    /\ nraw = <<"K","a","n","s","a","s",","," ","M","O">>
    /\ nout = <<"M","O">>

(* C21: the normaliser is idempotent: normalising the result of
   normalising a value gives that result again, a code staying itself and
   a value passed through as unrecognised (a missing one included) staying
   as it was passed through. *)
C21_NormaliserIdempotent ==
    npc = "again" => nagain = nout

\* an unrecognised value, passed through trimmed and upper-cased, and
\* normalised once more
C21_Witness ==
    /\ npc = "again"
    /\ nraw = <<"U","n","k","n","o","w","n">>
    /\ nout = <<"U","N","K","N","O","W","N">>
    /\ nagain = nout

\* a full name, normalised to its code, and normalised once more
C21_WitnessCode ==
    /\ npc = "again"
    /\ nsrc = <<"N","Y">> /\ nraw # nsrc
    /\ nout = <<"N","Y">> /\ nagain = nout

(* C6: for every known jurisdiction, its two-letter code and every spelling
   of its full name (any letter case, extra leading, trailing or inner
   whitespace) is normalised to that jurisdiction's own two-letter code. *)
C6_SpellingsGiveOwnCode ==
    (npc = "done" /\ nsrc # NoCode) => nout = nsrc

====
